---- MODULE Spec2Model ----
(***************************************************************************)
(* gspread-dataframe: the write path (set_with_dataframe), the capacity-   *)
(* aware resizer (_resize_to_minimum), the cell codec (_cellrepr,          *)
(* _escaped_string) and the read path (_get_all_values, get_as_dataframe)  *)
(* of src/gspread_dataframe.py, against a worksheet whose remote applies a *)
(* resize call's row count before its column count and rejects the call    *)
(* when the cell count exceeds its limit.                                  *)
(*                                                                         *)
(* Python's None for an absent integer argument is the value None below;   *)
(* row and column counts are never negative.  A Python string is a         *)
(* sequence of one-character strings, so that startswith is computed.      *)
(***************************************************************************)
EXTENDS Integers, Sequences, FiniteSets, TLC

VARIABLES
    row_count,   \* worksheet.row_count
    col_count,   \* worksheet.col_count
    limit,       \* the remote's maximum cell count
    pc,          \* "idle": no call in progress; "done": a call has ended
    op,          \* the function called last: "none", "_resize_to_minimum", "set_with_dataframe"
    args,        \* its arguments
    plan,        \* the locals of the resize step when the call ended
    calls,       \* the calls the call issued, in order: the remote's with their outcome,
                 \* and, in a direct call of the codec, those of the string_escaping callable
    updates,     \* the update list the call built (set_with_dataframe)
    before,      \* <<row_count, col_count>> when the call started
    result,      \* "none", "ok", "ValueError", "NameError", "APIError"
    returned     \* the value the call returned; NoValue when it returned None or raised

vars == <<row_count, col_count, limit, pc, op, args, plan, calls, updates, before, result, returned>>

None == 0 - 1

NoValue == [kind |-> "none"]

WORKSHEET_MAX_CELL_COUNT == 5000000

(***************************************************************************)
(* Bounds of the model.                                                    *)
(***************************************************************************)
MaxDataRows == 2     \* rows of a table
MaxDataCols == 2     \* columns of a table
MaxLevels == 2       \* levels of an index or of a header
MaxAnchor == 2       \* anchor row and anchor column
MaxStrLen == 2       \* characters of a string given to the codec
MaxGrid == 2         \* rows and columns of a sheet that is read
SmallLimit == 6      \* a remote whose cell limit small tables reach

(***************************************************************************)
(* The remote: worksheet.resize(rows, cols).                               *)
(***************************************************************************)

\* The dimensions a resize call passes through: the new row count is applied
\* first, the new column count second.
AfterRows(dims, rows) == <<IF rows # None THEN rows ELSE dims[1], dims[2]>>

AfterCols(dims, cols) == <<dims[1], IF cols # None THEN cols ELSE dims[2]>>

Cells(dims) == dims[1] * dims[2]

\* A remote that never rejects.
RemoteAcceptsAlways(dims, lim, rows, cols) == TRUE

\* The source documents one reason for a rejection, the cell limit, checked
\* after the row count is applied and again after the column count is: the
\* call is accepted iff neither the state after the row count nor the
\* state after the column count exceeds the limit.
RemoteAccepts(dims, lim, rows, cols) ==
    /\ Cells(AfterRows(dims, rows)) <= lim
    /\ Cells(AfterCols(AfterRows(dims, rows), cols)) <= lim

\* One resize call: its log entry.  mid and fin are the dimensions the call
\* asks the sheet to pass through; a rejected call changes nothing.
ResizeCall(dims, lim, rows, cols) ==
    [op |-> "resize", rows |-> rows, cols |-> cols,
     ok |-> RemoteAccepts(dims, lim, rows, cols),
     mid |-> AfterRows(dims, rows),
     fin |-> AfterCols(AfterRows(dims, rows), cols)]

\* As Issue, with a rejected call issued a second time.
RECURSIVE IssueRetryOnce(_, _, _, _)
IssueRetryOnce(dims, lim, reqs, log) ==
    IF reqs = <<>> THEN [dims |-> dims, log |-> log]
    ELSE LET c == ResizeCall(dims, lim, reqs[1].rows, reqs[1].cols)
         IN IF c.ok THEN IssueRetryOnce(c.fin, lim, Tail(reqs), Append(log, c))
            ELSE [dims |-> dims, log |-> Append(Append(log, c), c)]

\* As Issue, on a remote that keeps the new row count of a call it rejects.
RECURSIVE IssueKeepingRows(_, _, _, _)
IssueKeepingRows(dims, lim, reqs, log) ==
    IF reqs = <<>> THEN [dims |-> dims, log |-> log]
    ELSE LET c == ResizeCall(dims, lim, reqs[1].rows, reqs[1].cols)
         IN IF c.ok THEN IssueKeepingRows(c.fin, lim, Tail(reqs), Append(log, c))
            ELSE [dims |-> c.mid, log |-> Append(log, c)]

\* A sequence of resize requests issued one after the other; the exception of
\* a rejected call ends the sequence: nothing is issued after it.
RECURSIVE Issue(_, _, _, _)
Issue(dims, lim, reqs, log) ==
    IF reqs = <<>> THEN [dims |-> dims, log |-> log]
    ELSE LET c == ResizeCall(dims, lim, reqs[1].rows, reqs[1].cols)
         IN IF c.ok THEN Issue(c.fin, lim, Tail(reqs), Append(log, c))
            ELSE [dims |-> dims, log |-> Append(log, c)]

Rejected(log) == \E i \in 1..Len(log) : ~log[i].ok

(***************************************************************************)
(* _resize_to_minimum: the locals it computes and the calls it issues.     *)
(***************************************************************************)
\* Lines 91-94 left out: the desired value is the requested one.
ClampNone(desired, current) == desired

\* Lines 91-94 without their comparison: a requested dimension stays as it is.
ClampToCurrent(desired, current) == IF desired # None THEN current ELSE desired

Clamp(desired, current) ==
    IF desired # None /\ desired <= current THEN current ELSE desired

\* Without the cols-first branch: always one call.
ResizePlanNeverColsFirst(current_rows, current_cols, rows, cols) ==
    LET r0 == Clamp(rows, current_rows)
        c0 == Clamp(cols, current_cols)
        both == r0 # None /\ c0 # None
        exact == both /\ r0 * c0 > WORKSHEET_MAX_CELL_COUNT
        desired_rows == IF exact THEN rows ELSE r0
        desired_cols == IF exact THEN cols ELSE c0
    IN [desired_rows |-> desired_rows, desired_cols |-> desired_cols,
        exact |-> exact, resize_cols_first |-> FALSE,
        reqs |-> IF desired_cols # None \/ desired_rows # None
                 THEN << [rows |-> desired_rows, cols |-> desired_cols] >>
                 ELSE << >>]

\* With the two calls of the cols-first branch in the other order.
ResizePlanRowsFirst(current_rows, current_cols, rows, cols) ==
    LET r0 == Clamp(rows, current_rows)
        c0 == Clamp(cols, current_cols)
        both == r0 # None /\ c0 # None
        exact == both /\ r0 * c0 > WORKSHEET_MAX_CELL_COUNT
        desired_rows == IF exact THEN rows ELSE r0
        desired_cols == IF exact THEN cols ELSE c0
        resize_cols_first ==
            /\ both
            /\ cols # None
            /\ cols < current_cols
            /\ desired_rows * current_cols > WORKSHEET_MAX_CELL_COUNT
    IN [desired_rows |-> desired_rows, desired_cols |-> desired_cols,
        exact |-> exact, resize_cols_first |-> resize_cols_first,
        reqs |-> IF desired_cols # None \/ desired_rows # None
                 THEN IF resize_cols_first
                      THEN << [rows |-> desired_rows, cols |-> None],
                              [rows |-> None, cols |-> desired_cols] >>
                      ELSE << [rows |-> desired_rows, cols |-> desired_cols] >>
                 ELSE << >>]

\* With the cols-first branch taken whenever cols is below the current
\* column count (the product test of line 121 left out).
ResizePlanColsFirstWhenBelow(current_rows, current_cols, rows, cols) ==
    LET r0 == Clamp(rows, current_rows)
        c0 == Clamp(cols, current_cols)
        both == r0 # None /\ c0 # None
        exact == both /\ r0 * c0 > WORKSHEET_MAX_CELL_COUNT
        desired_rows == IF exact THEN rows ELSE r0
        desired_cols == IF exact THEN cols ELSE c0
        resize_cols_first == both /\ cols # None /\ cols < current_cols
    IN [desired_rows |-> desired_rows, desired_cols |-> desired_cols,
        exact |-> exact, resize_cols_first |-> resize_cols_first,
        reqs |-> IF desired_cols # None \/ desired_rows # None
                 THEN IF resize_cols_first
                      THEN << [rows |-> None, cols |-> desired_cols],
                              [rows |-> desired_rows, cols |-> None] >>
                      ELSE << [rows |-> desired_rows, cols |-> desired_cols] >>
                 ELSE << >>]

ResizePlan(current_rows, current_cols, rows, cols) ==
    LET r0 == Clamp(rows, current_rows)
        c0 == Clamp(cols, current_cols)
        both == r0 # None /\ c0 # None
        exact == both /\ r0 * c0 > WORKSHEET_MAX_CELL_COUNT
        desired_rows == IF exact THEN rows ELSE r0
        desired_cols == IF exact THEN cols ELSE c0
        resize_cols_first ==
            /\ both
            /\ cols # None
            /\ cols < current_cols
            /\ desired_rows * current_cols > WORKSHEET_MAX_CELL_COUNT
    IN [desired_rows |-> desired_rows, desired_cols |-> desired_cols,
        exact |-> exact, resize_cols_first |-> resize_cols_first,
        reqs |-> IF desired_cols # None \/ desired_rows # None
                 THEN IF resize_cols_first
                      THEN << [rows |-> None, cols |-> desired_cols],
                              [rows |-> desired_rows, cols |-> None] >>
                      ELSE << [rows |-> desired_rows, cols |-> desired_cols] >>
                 ELSE << >>]

NoPlan ==
    [desired_rows |-> None, desired_cols |-> None, exact |-> FALSE,
     resize_cols_first |-> FALSE, reqs |-> << >>]

ResizeToMinimum(rows, cols) ==
    /\ pc = "idle"
    /\ LET p == ResizePlan(row_count, col_count, rows, cols)
           out == Issue(<<row_count, col_count>>, limit, p.reqs, << >>)
       IN /\ plan' = p
          /\ calls' = out.log
          /\ row_count' = out.dims[1]
          /\ col_count' = out.dims[2]
          /\ result' = IF Rejected(out.log) THEN "APIError" ELSE "ok"
    /\ op' = "_resize_to_minimum"
    /\ args' = [rows |-> rows, cols |-> cols]
    /\ updates' = << >>
    /\ before' = <<row_count, col_count>>
    /\ returned' = NoValue
    /\ pc' = "done"
    /\ UNCHANGED limit

\* The call returns (or its exception has reached the caller): its locals are gone.
Return ==
    /\ pc = "done"
    /\ pc' = "idle"
    /\ op' = "none"
    /\ args' = [rows |-> None, cols |-> None]
    /\ plan' = NoPlan
    /\ calls' = << >>
    /\ updates' = << >>
    /\ before' = <<row_count, col_count>>
    /\ result' = "none"
    /\ returned' = NoValue
    /\ UNCHANGED <<row_count, col_count, limit>>

(***************************************************************************)
(* Values.  A table value is null (None, NaN), a number or a string; a     *)
(* string carries its characters.  RAISED is the outcome of a _cellrepr    *)
(* call that raised the ValueError of _escaped_string.                     *)
(***************************************************************************)
Null == [kind |-> "null", s |-> << >>]
Str(s) == [kind |-> "str", s |-> s]
Num(s) == [kind |-> "num", s |-> s]
RAISED == [kind |-> "raise", s |-> << >>]

startswith(value, ch) == Len(value) > 0 /\ value[1] = ch

\* string_escaping: mode is "default", "off", "full", "callable" (accepts
\* holds the strings the callable is true of) or anything else.
Policy(mode) == [mode |-> mode, accepts |-> {}]
Callable(accepts) == [mode |-> "callable", accepts |-> accepts]

\* _escaped_string without its first test (lines 38-39).
EscapedStringNoEmptyCheck(value, string_escaping) ==
    IF string_escaping.mode = "default"
    THEN IF startswith(value.s, "'") THEN Str(<<"'">> \o value.s) ELSE value
    ELSE IF string_escaping.mode = "off" THEN value
    ELSE IF string_escaping.mode = "full" THEN Str(<<"'">> \o value.s)
    ELSE IF string_escaping.mode = "callable"
         THEN IF value.s \in string_escaping.accepts
              THEN Str(<<"'">> \o value.s) ELSE value
    ELSE RAISED

EscapedString(value, string_escaping) ==
    IF value.kind = "null" \/ value.s = << >> THEN Str(<< >>)
    ELSE IF string_escaping.mode = "default"
         THEN IF startswith(value.s, "'") THEN Str(<<"'">> \o value.s) ELSE value
    ELSE IF string_escaping.mode = "off" THEN value
    ELSE IF string_escaping.mode = "full" THEN Str(<<"'">> \o value.s)
    ELSE IF string_escaping.mode = "callable"
         THEN IF value.s \in string_escaping.accepts
              THEN Str(<<"'">> \o value.s) ELSE value
    ELSE RAISED

\* The values string_escaping was called with, when it is a callable (line 47).
PredicateCalls(value, string_escaping) ==
    IF value.kind = "null" \/ value.s = << >> THEN << >>
    ELSE IF string_escaping.mode = "callable"
         THEN << [op |-> "string_escaping", value |-> value.s] >>
    ELSE << >>

\* _cellrepr with the formula rule applied on top of the policy's result.
CellReprPolicyFirst(value, allow_formulas, string_escaping) ==
    IF value.kind = "null" THEN Str(<< >>)
    ELSE IF value.kind = "num" THEN value
    ELSE LET escaped == EscapedString(value, string_escaping)
         IN IF (~allow_formulas) /\ startswith(value.s, "=")
            THEN IF escaped = RAISED THEN RAISED ELSE Str(<<"'">> \o escaped.s)
            ELSE escaped

\* _cellrepr without the formula rule (lines 76-77) when the policy is 'off'.
CellReprOffIsOff(value, allow_formulas, string_escaping) ==
    IF value.kind = "null" THEN Str(<< >>)
    ELSE IF value.kind = "num" THEN value
    ELSE IF (~allow_formulas) /\ startswith(value.s, "=") /\ string_escaping.mode # "off"
         THEN Str(<<"'">> \o value.s)
    ELSE EscapedString(value, string_escaping)

CellRepr(value, allow_formulas, string_escaping) ==
    IF value.kind = "null" THEN Str(<< >>)
    ELSE IF value.kind = "num" THEN value
    ELSE IF (~allow_formulas) /\ startswith(value.s, "=")
         THEN Str(<<"'">> \o value.s)
    ELSE EscapedString(value, string_escaping)

CellReprPredicateCalls(value, allow_formulas, string_escaping) ==
    IF value.kind # "str" THEN << >>
    ELSE IF (~allow_formulas) /\ startswith(value.s, "=") THEN << >>
    ELSE PredicateCalls(value, string_escaping)

\* A direct call of _escaped_string(value, string_escaping).
EscapedStringCall(value, string_escaping) ==
    /\ pc = "idle"
    /\ LET out == EscapedString(value, string_escaping)
       IN /\ result' = IF out = RAISED THEN "ValueError" ELSE "ok"
          /\ returned' = IF out = RAISED THEN NoValue ELSE out
    /\ calls' = PredicateCalls(value, string_escaping)
    /\ op' = "_escaped_string"
    /\ args' = [rows |-> None, cols |-> None, value |-> value,
                string_escaping |-> string_escaping]
    /\ pc' = "done"
    /\ UNCHANGED <<row_count, col_count, limit, plan, updates, before>>

\* A direct call of _cellrepr(value, allow_formulas, string_escaping).
CellReprCall(value, allow_formulas, string_escaping) ==
    /\ pc = "idle"
    /\ LET out == CellRepr(value, allow_formulas, string_escaping)
       IN /\ result' = IF out = RAISED THEN "ValueError" ELSE "ok"
          /\ returned' = IF out = RAISED THEN NoValue ELSE out
    /\ calls' = CellReprPredicateCalls(value, allow_formulas, string_escaping)
    /\ op' = "_cellrepr"
    /\ args' = [rows |-> None, cols |-> None, value |-> value,
                allow_formulas |-> allow_formulas,
                string_escaping |-> string_escaping]
    /\ pc' = "done"
    /\ UNCHANGED <<row_count, col_count, limit, plan, updates, before>>

(***************************************************************************)
(* A DataFrame: index (one tuple of index_nlevels values per row),         *)
(* index_names (one per level, Null when unnamed), columns (one label      *)
(* tuple of columns_nlevels values per column), data (one row of values    *)
(* per index entry).  A single-level index or header has tuples of one     *)
(* value.                                                                  *)
(***************************************************************************)
DetermineIndexColumnSize(df) == df.index_nlevels

\* _determine_column_header_size taking every header for a flat one.
DetermineColumnHeaderSizeFlat(df) == 1

DetermineColumnHeaderSize(df) == df.columns_nlevels

\* elts with the index names at the first level of a multi-level header
\* instead of the deepest (line 328 with the tuple's parts exchanged).
HeaderEltsNamesOnTop(df, include_index, column_header_size) ==
    IF column_header_size > 1
    THEN (IF include_index
          THEN [e \in 1..Len(df.index_names) |->
                    [l \in 1..column_header_size |->
                        IF l > 1 THEN Null ELSE df.index_names[e]]]
          ELSE << >>) \o df.columns
    ELSE (IF include_index THEN [e \in 1..Len(df.index_names) |-> <<df.index_names[e]>>]
          ELSE << >>) \o df.columns

\* elts: the header's label tuples, those of the index columns (the index
\* names, under None at every level but the deepest) in front.
HeaderElts(df, include_index, column_header_size) ==
    IF column_header_size > 1
    THEN (IF include_index
          THEN [e \in 1..Len(df.index_names) |->
                    [l \in 1..column_header_size |->
                        IF l < column_header_size THEN Null ELSE df.index_names[e]]]
          ELSE << >>) \o df.columns
    ELSE (IF include_index THEN [e \in 1..Len(df.index_names) |-> <<df.index_names[e]>>]
          ELSE << >>) \o df.columns

\* The updates of the header rows, the first of them at `row`: level by
\* level, and within a level element by element.
HeaderUpdates(df, row, col, include_index, column_header_size, allow_formulas, string_escaping) ==
    LET elts == HeaderElts(df, include_index, column_header_size)
        w == Len(elts)
    IN [k \in 1..(column_header_size * w) |->
           LET level == (k - 1) \div w
               idx == (k - 1) % w
           IN <<row + level, col + idx,
                CellRepr(elts[idx + 1][level + 1], allow_formulas, string_escaping)>>]

\* The data rows without their index tuples.
ValueRowsNoIndex(df, include_index) == df.data

\* values: each data row, with its index tuple in front when include_index.
ValueRows(df, include_index) ==
    [i \in 1..Len(df.data) |->
        (IF include_index THEN df.index[i] ELSE << >>) \o df.data[i]]

\* index_runs: the maximal runs of consecutive rows with the same index
\* tuple, as (tuple, first row, last row), rows counted from 0.
RECURSIVE IndexRuns(_, _, _, _, _, _)
IndexRuns(values, index_col_size, i, runs, current_run_rows, current_run_index_values) ==
    LET flush == Append(runs, [vals |-> current_run_index_values,
                               first |-> current_run_rows[1],
                               last |-> current_run_rows[Len(current_run_rows)]])
    IN IF i > Len(values)
       THEN IF current_run_rows # << >> THEN flush ELSE runs
       ELSE LET index_values == SubSeq(values[i], 1, index_col_size)
            IN IF current_run_index_values # index_values
               THEN IndexRuns(values, index_col_size, i + 1,
                              IF current_run_index_values # << >> THEN flush ELSE runs,
                              <<i - 1>>, index_values)
               ELSE IndexRuns(values, index_col_size, i + 1, runs,
                              Append(current_run_rows, i - 1), current_run_index_values)

\* column_runs of one index column: the maximal runs of one value in that
\* column, as (column, value, first row, last row), columns counted from 0.
RECURSIVE ColumnRunsOf(_, _, _, _, _)
ColumnRunsOf(index_runs, col_idx, k, acc, cur) ==
    IF k > Len(index_runs)
    THEN IF cur # << >> THEN Append(acc, cur[1]) ELSE acc
    ELSE LET run == index_runs[k]
             val == run.vals[col_idx + 1]
         IN IF cur = << >> \/ val # cur[1].value
            THEN ColumnRunsOf(index_runs, col_idx, k + 1,
                              IF cur # << >> THEN Append(acc, cur[1]) ELSE acc,
                              << [col |-> col_idx, value |-> val,
                                  first |-> run.first, last |-> run.last] >>)
            ELSE ColumnRunsOf(index_runs, col_idx, k + 1, acc,
                              << [cur[1] EXCEPT !.last = run.last] >>)

RECURSIVE ColumnRuns(_, _, _, _)
ColumnRuns(index_runs, index_col_size, col_idx, acc) ==
    IF col_idx >= index_col_size THEN acc
    ELSE ColumnRuns(index_runs, index_col_size, col_idx + 1,
                    ColumnRunsOf(index_runs, col_idx, 1, acc, << >>))

\* Each column run blanks its rows after the first.
Blanked(values, column_runs) ==
    [i \in 1..Len(values) |->
        [j \in 1..Len(values[i]) |->
            IF \E n \in 1..Len(column_runs) :
                   /\ column_runs[n].col = j - 1
                   /\ column_runs[n].first + 1 <= i - 1
                   /\ i - 1 <= column_runs[n].last
            THEN Str(<< >>)
            ELSE values[i][j]]]

\* The data updates with the two loops of lines 423-424 exchanged.
DataUpdatesColumnMajor(values, row, col, allow_formulas, string_escaping) ==
    LET w == IF values = << >> THEN 0 ELSE Len(values[1])
        h == Len(values)
    IN [k \in 1..(h * w) |->
           LET x_idx == (k - 1) \div h
               y_idx == (k - 1) % h
           IN <<y_idx + row, x_idx + col,
                CellRepr(values[y_idx + 1][x_idx + 1], allow_formulas, string_escaping)>>]

\* The updates of the data rows, the first of them at `row`.
DataUpdates(values, row, col, allow_formulas, string_escaping) ==
    LET w == IF values = << >> THEN 0 ELSE Len(values[1])
    IN [k \in 1..(Len(values) * w) |->
           LET y_idx == (k - 1) \div w
               x_idx == (k - 1) % w
           IN <<y_idx + row, x_idx + col,
                CellRepr(values[y_idx + 1][x_idx + 1], allow_formulas, string_escaping)>>]

Raises(upd) == \E k \in 1..Len(upd) : upd[k][3].kind = "raise"

UpdateCellsCall(dims) ==
    [op |-> "update_cells", rows |-> None, cols |-> None, ok |-> TRUE,
     mid |-> dims, fin |-> dims]

\* The outcome of set_with_dataframe on a sheet of dimensions dims: the resize
\* step (with resize, the one call worksheet.resize(y, x), whose dimensions
\* the plan then carries as the desired ones), the header updates, the
\* blanking of a MultiIndex, the data updates, and the one update_cells call.
\* An exception ends it where it is raised: the APIError of a rejected
\* resize, the ValueError of _escaped_string, the NameError of the unfinished
\* 'merge' branch (GridRange and XXX are undefined names).
SetOutcome(dims, lim, df, row, col, include_index, include_column_header, resize, allow_formulas, string_escaping, handle_MultiIndex) ==
    LET index_col_size == IF include_index THEN DetermineIndexColumnSize(df) ELSE 0
        column_header_size ==
            IF include_column_header THEN DetermineColumnHeaderSize(df) ELSE 0
        x == Len(df.columns) + index_col_size
        y == Len(df.data) + column_header_size
        p == IF resize
             THEN [NoPlan EXCEPT !.desired_rows = y, !.desired_cols = x,
                                 !.reqs = << [rows |-> y, cols |-> x] >>]
             ELSE ResizePlan(dims[1], dims[2], y, x)
        out == Issue(dims, lim, p.reqs, << >>)
        using_multiindex == index_col_size > 1
        header == IF include_column_header
                  THEN HeaderUpdates(df, row, col, include_index, column_header_size,
                                     allow_formulas, string_escaping)
                  ELSE << >>
        data_row == row + column_header_size
        values0 == ValueRows(df, include_index)
        blanking == include_index /\ using_multiindex
                    /\ handle_MultiIndex \in {"blank", "merge"}
        column_runs ==
            IF blanking
            THEN ColumnRuns(IndexRuns(values0, index_col_size, 1, << >>, << >>, << >>),
                            index_col_size, 0, << >>)
            ELSE << >>
        values == IF blanking THEN Blanked(values0, column_runs) ELSE values0
        body == DataUpdates(values, data_row, col, allow_formulas, string_escaping)
        all == header \o body
        stop(res) == [dims |-> out.dims, plan |-> p, calls |-> out.log,
                      updates |-> << >>, result |-> res]
    IN IF Rejected(out.log) THEN stop("APIError")
       ELSE IF Raises(header) THEN stop("ValueError")
       ELSE IF handle_MultiIndex = "merge" /\ column_runs # << >> THEN stop("NameError")
       ELSE IF Raises(body) THEN stop("ValueError")
       ELSE [dims |-> out.dims, plan |-> p,
             calls |-> IF all = << >> THEN out.log
                       ELSE Append(out.log, UpdateCellsCall(out.dims)),
             updates |-> all, result |-> "ok"]

SetWithDataframe(df, row, col, include_index, include_column_header, resize, allow_formulas, string_escaping, handle_MultiIndex) ==
    /\ pc = "idle"
    /\ LET o == SetOutcome(<<row_count, col_count>>, limit, df, row, col,
                           include_index, include_column_header, resize,
                           allow_formulas, string_escaping, handle_MultiIndex)
       IN /\ plan' = o.plan
          /\ calls' = o.calls
          /\ updates' = o.updates
          /\ result' = o.result
          /\ row_count' = o.dims[1]
          /\ col_count' = o.dims[2]
    /\ op' = "set_with_dataframe"
    /\ args' = [rows |-> None, cols |-> None, df |-> df, row |-> row, col |-> col,
                include_index |-> include_index,
                include_column_header |-> include_column_header,
                resize |-> resize, allow_formulas |-> allow_formulas,
                string_escaping |-> string_escaping,
                handle_MultiIndex |-> handle_MultiIndex]
    /\ before' = <<row_count, col_count>>
    /\ returned' = NoValue
    /\ pc' = "done"
    /\ UNCHANGED limit

(***************************************************************************)
(* The read path.  The remote answers values_get with a list of rows, each *)
(* a list of cell values, in which trailing empty cells of a row and       *)
(* trailing empty rows may be missing.                                     *)
(***************************************************************************)
Max(a, b) == IF a >= b THEN a ELSE b

MaxOf(S) == CHOOSE m \in S : \A n \in S : n <= m

\* gspread.utils.fill_gaps(values, rows, cols): pads the list with empty rows
\* up to `rows` and every row with "" up to `cols`; it never cuts.
FillGaps(values, rows, cols) ==
    LET padded == values \o [k \in 1..Max(rows - Len(values), 0) |-> << >>]
    IN [i \in 1..Len(padded) |->
           padded[i] \o [k \in 1..Max(cols - Len(padded[i]), 0) |-> Str(<< >>)]]

\* The cells of a list of rows, as {<<row, col>>}, numbered from the offsets.
CellKeys(rect_values, row_offset, column_offset) ==
    UNION { { <<(i - 1) + row_offset, (j - 1) + column_offset>> :
                j \in 1..Len(rect_values[i]) } : i \in 1..Len(rect_values) }

\* lines 154-173: the rows of cells rebuilt as a rectangle that reaches the
\* largest row number and the largest column number of any cell.
Rectangle(rect_values, row_offset, column_offset) ==
    LET keys == CellKeys(rect_values, row_offset, column_offset)
    IN IF keys = {} THEN << >>
       ELSE LET last_col == MaxOf({k[2] : k \in keys})
                last_key == MaxOf({k[1] : k \in keys})
            IN [i \in 1..last_key |-> [j \in 1..last_col |->
                   IF <<i, j>> \in keys
                   THEN rect_values[(i - row_offset) + 1][(j - column_offset) + 1]
                   ELSE Str(<< >>)]]

\* _get_all_values without the fill_gaps step of lines 148-152.
GetAllValuesOfExtent(last_row, last_column, values) ==
    Rectangle(values, 1, 1)

GetAllValuesOf(last_row, last_column, values) ==
    LET row_offset == 1
        column_offset == 1
        rect_values == FillGaps(values, (last_row - row_offset) + 1,
                                (last_column - column_offset) + 1)
    IN Rectangle(rect_values, row_offset, column_offset)

\* pandas' TextParser(all_values).read() under its default options: the first
\* row is the header, an empty header cell gives the column the placeholder
\* name "Unnamed: <position>", and an empty data cell is read as null.  Rows
\* are taken to hold a non-empty cell each.
ColumnLabel(cell, position) ==
    IF cell.kind = "str" /\ cell.s = << >>
    THEN [kind |-> "unnamed", s |-> << >>, position |-> position]
    ELSE [kind |-> "named", s |-> cell.s, position |-> position]

Parsed(cell) == IF cell.kind = "str" /\ cell.s = << >> THEN Null ELSE cell

TextParserRead(all_values) ==
    [kind |-> "frame",
     columns |-> [j \in 1..Len(all_values[1]) |-> ColumnLabel(all_values[1][j], j - 1)],
     data |-> [i \in 1..(Len(all_values) - 1) |->
                  [j \in 1..Len(all_values[i + 1]) |-> Parsed(all_values[i + 1][j])]]]

\* A direct call of _get_all_values(worksheet, evaluate_formulas); values is
\* what the remote answers.
GetAllValues(values, evaluate_formulas) ==
    /\ pc = "idle"
    /\ returned' = [kind |-> "grid", rows |-> GetAllValuesOf(row_count, col_count, values)]
    /\ result' = "ok"
    /\ calls' = << [op |-> "values_get", evaluate_formulas |-> evaluate_formulas] >>
    /\ op' = "_get_all_values"
    /\ args' = [rows |-> None, cols |-> None, values |-> values,
                evaluate_formulas |-> evaluate_formulas]
    /\ pc' = "done"
    /\ UNCHANGED <<row_count, col_count, limit, plan, updates, before>>

\* get_as_dataframe(worksheet, evaluate_formulas, handle_MultiIndex) with no
\* parser options: the index of the table read has one level, so that the
\* MultiIndex correction of lines 212-214 is not reached; an empty grid makes
\* the parser raise.
GetAsDataframe(values, evaluate_formulas, handle_MultiIndex) ==
    /\ pc = "idle"
    /\ LET all_values == GetAllValuesOf(row_count, col_count, values)
       IN IF all_values = << >>
          THEN result' = "EmptyDataError" /\ returned' = NoValue
          ELSE result' = "ok" /\ returned' = TextParserRead(all_values)
    /\ calls' = << [op |-> "values_get", evaluate_formulas |-> evaluate_formulas] >>
    /\ op' = "get_as_dataframe"
    /\ args' = [rows |-> None, cols |-> None, values |-> values,
                evaluate_formulas |-> evaluate_formulas,
                handle_MultiIndex |-> handle_MultiIndex]
    /\ pc' = "done"
    /\ UNCHANGED <<row_count, col_count, limit, plan, updates, before>>

(***************************************************************************)
(* The resizer alone, on sheets of the sizes the integration tests use.    *)
(***************************************************************************)
RowChoices == {20, 100, 200, 201, 10000, 1000000}
ColChoices == {2, 5, 26, 27, 28}
LimitChoices == {2000000, WORKSHEET_MAX_CELL_COUNT, 10000000, 25999999}

InitCommon ==
    /\ pc = "idle"
    /\ op = "none"
    /\ args = [rows |-> None, cols |-> None]
    /\ plan = NoPlan
    /\ calls = << >>
    /\ updates = << >>
    /\ before = <<row_count, col_count>>
    /\ result = "none"
    /\ returned = NoValue

InitResize ==
    /\ limit \in LimitChoices
    /\ row_count \in RowChoices
    /\ col_count \in ColChoices
    /\ row_count * col_count <= limit
    /\ InitCommon

CallResizeLarge ==
    /\ pc = "idle"
    /\ \E rows \in RowChoices \cup {None}, cols \in ColChoices \cup {None} :
          ResizeToMinimum(rows, cols)

NextResize == CallResizeLarge \/ Return

SpecResize == InitResize /\ [][NextResize]_vars

(***************************************************************************)
(* The write path and the resizer on small sheets and small tables.        *)
(***************************************************************************)
Digit(n) == <<"0", "1", "2", "3", "4", "5", "6", "7", "8", "9">>[n + 1]

DataPool == << Num(<<"1">>), Str(<<"a">>), Null, Str(<<"=", "f">>), Str(<<"'", "q">>) >>

\* The table of n_rows x n_cols cells whose cells run through DataPool,
\* under labels of the given level counts.
Frame(n_rows, n_cols, index_nlevels, columns_nlevels, named) ==
    [index_nlevels |-> index_nlevels,
     columns_nlevels |-> columns_nlevels,
     index_names |-> [l \in 1..index_nlevels |->
                         IF named THEN Str(<<"n", Digit(l)>>) ELSE Null],
     index |-> [i \in 1..n_rows |->
                   [l \in 1..index_nlevels |->
                       IF l < index_nlevels THEN Str(<<"A">>) ELSE Str(<<"r", Digit(i)>>)]],
     columns |-> [j \in 1..n_cols |->
                     [l \in 1..columns_nlevels |->
                         IF l < columns_nlevels THEN Str(<<"H">>) ELSE Str(<<"c", Digit(j)>>)]],
     data |-> [i \in 1..n_rows |->
                  [j \in 1..n_cols |->
                      DataPool[(((i - 1) * n_cols + (j - 1)) % Len(DataPool)) + 1]]]]

\* Single-level and multi-level labels, named and unnamed index levels.
Frames ==
    { Frame(r, c, il, cl, named) :
        r \in 0..MaxDataRows, c \in 0..MaxDataCols,
        il \in {1, MaxLevels}, cl \in {1, MaxLevels}, named \in BOOLEAN }

Anchors == {1, MaxAnchor}

DefaultStyle ==
    [allow_formulas |-> TRUE, string_escaping |-> Policy("default"),
     handle_MultiIndex |-> "repeat"]

\* string_escaping, allow_formulas and handle_MultiIndex: the defaults, and
\* each of them changed alone.
Styles ==
    { [DefaultStyle EXCEPT !.string_escaping = Policy(m)] :
        m \in {"default", "off", "full", "bogus"} }
    \cup { [DefaultStyle EXCEPT !.string_escaping = Callable({<<"a">>})] }
    \cup { [DefaultStyle EXCEPT !.allow_formulas = FALSE] }
    \cup { [DefaultStyle EXCEPT !.handle_MultiIndex = h] : h \in {"blank", "merge"} }

SmallDims == 1..(MaxDataRows + 1)

Init ==
    /\ limit \in {SmallLimit, WORKSHEET_MAX_CELL_COUNT}
    /\ row_count \in SmallDims
    /\ col_count \in SmallDims
    /\ row_count * col_count <= limit
    /\ InitCommon

\* A caller resizing on its own.
CallResize ==
    /\ pc = "idle"
    /\ \E rows \in SmallDims \cup {None}, cols \in SmallDims \cup {None} :
          ResizeToMinimum(rows, cols)

\* A write of any table at any anchor, with the default escaping.
CallWrite ==
    /\ pc = "idle"
    /\ \E df \in Frames, row \in Anchors, col \in Anchors,
          include_index \in BOOLEAN, include_column_header \in BOOLEAN,
          resize \in BOOLEAN :
          SetWithDataframe(df, row, col, include_index, include_column_header, resize,
                           DefaultStyle.allow_formulas, DefaultStyle.string_escaping,
                           DefaultStyle.handle_MultiIndex)

\* A write of any table at the default anchor, under any of the styles.
CallWriteStyled ==
    /\ pc = "idle"
    /\ \E df \in Frames, include_index \in BOOLEAN, resize \in BOOLEAN,
          style \in Styles \ {DefaultStyle} :
          SetWithDataframe(df, 1, 1, include_index, TRUE, resize,
                           style.allow_formulas, style.string_escaping,
                           style.handle_MultiIndex)

\* Tables of one column under a multi-level index whose tuples are any
\* tuples over two values: values repeat from row to row at any level.
IndexValues == {Str(<<"A">>), Str(<<"B">>)}

IndexTuples == [1..MaxLevels -> IndexValues]

Indexes == UNION {[1..n -> IndexTuples] : n \in 1..MaxDataRows}

IndexedFrames ==
    { [Frame(Len(index), 1, MaxLevels, 1, FALSE) EXCEPT !.index = index] :
        index \in Indexes }

\* A write of such a table with its index, the higher-level values repeated
\* or left blank.
CallWriteIndexed ==
    /\ pc = "idle"
    /\ \E df \in IndexedFrames, handle_MultiIndex \in {"repeat", "blank"} :
          SetWithDataframe(df, 1, 1, TRUE, TRUE, FALSE,
                           DefaultStyle.allow_formulas, DefaultStyle.string_escaping,
                           handle_MultiIndex)

Next == CallResize \/ CallWrite \/ CallWriteStyled \/ CallWriteIndexed \/ Return

Spec == Init /\ [][Next]_vars

(***************************************************************************)
(* The cell codec alone: _escaped_string and _cellrepr on every string of  *)
(* up to MaxStrLen characters over an alphabet holding the two characters  *)
(* the code tests for, on the null value and on a number, under every      *)
(* policy.                                                                 *)
(***************************************************************************)
Alphabet == {"=", "'", "a"}

CellStrings == UNION {[1..n -> Alphabet] : n \in 0..MaxStrLen}

CellValues == {Null, Num(<<"1">>)} \cup {Str(s) : s \in CellStrings}

AcceptChoices ==
    { {}, CellStrings, {<< >>}, {s \in CellStrings : startswith(s, "a")} }

Policies ==
    {Policy(m) : m \in {"default", "off", "full", "bogus"}}
        \cup {Callable(a) : a \in AcceptChoices}

InitCell ==
    /\ limit = WORKSHEET_MAX_CELL_COUNT
    /\ row_count = 1
    /\ col_count = 1
    /\ InitCommon

CallEscapedString ==
    /\ pc = "idle"
    /\ \E value \in CellValues \ {Num(<<"1">>)}, string_escaping \in Policies :
          EscapedStringCall(value, string_escaping)

CallCellRepr ==
    /\ pc = "idle"
    /\ \E value \in CellValues, allow_formulas \in BOOLEAN, string_escaping \in Policies :
          CellReprCall(value, allow_formulas, string_escaping)

NextCell == CallEscapedString \/ CallCellRepr \/ Return

SpecCell == InitCell /\ [][NextCell]_vars

(***************************************************************************)
(* The read path on sheets of up to MaxGrid rows and columns, the remote   *)
(* answering with any rows of any lengths within the sheet.                *)
(***************************************************************************)
SheetCells == {Str(<< >>), Str(<<"x">>)}

RowsOfWidth(width) == UNION {[1..n -> SheetCells] : n \in 0..width}

Answers(height, width) == UNION {[1..n -> RowsOfWidth(width)] : n \in 0..height}

InitRead ==
    /\ limit = WORKSHEET_MAX_CELL_COUNT
    /\ row_count \in 1..MaxGrid
    /\ col_count \in 1..MaxGrid
    /\ InitCommon

CallGetAllValues ==
    /\ pc = "idle"
    /\ \E values \in Answers(row_count, col_count), evaluate_formulas \in BOOLEAN :
          GetAllValues(values, evaluate_formulas)

\* The parser's treatment of blank lines is not modelled: the sheets handed
\* to get_as_dataframe have a non-empty cell in every row.
NoBlankLine(values, height) ==
    /\ Len(values) = height
    /\ \A i \in 1..height : \E j \in 1..Len(values[i]) : values[i][j] # Str(<< >>)

CallGetAsDataframe ==
    /\ pc = "idle"
    /\ \E values \in Answers(row_count, col_count), evaluate_formulas \in BOOLEAN :
          /\ NoBlankLine(values, row_count)
          /\ GetAsDataframe(values, evaluate_formulas, "repeat")

NextRead == CallGetAllValues \/ CallGetAsDataframe \/ Return

SpecRead == InitRead /\ [][NextRead]_vars

(***************************************************************************)
(* What a finished call shows.                                             *)
(***************************************************************************)
Resizing == pc = "done" /\ op = "_resize_to_minimum"

Writing == pc = "done" /\ op = "set_with_dataframe"

\* The dimensions the resizer aims at: a dimension it has no desired value
\* for stays as it is.
Target ==
    <<IF plan.desired_rows # None THEN plan.desired_rows ELSE before[1],
      IF plan.desired_cols # None THEN plan.desired_cols ELSE before[2]>>

ResizeCalls == SelectSeq(calls, LAMBDA c : c.op = "resize")

UpdateCalls == SelectSeq(calls, LAMBDA c : c.op = "update_cells")

UpdatedCells == { <<updates[k][1], updates[k][2]>> : k \in 1..Len(updates) }

UpdatedRows == { updates[k][1] : k \in 1..Len(updates) }

\* The shape of the table written and of its labels, from the arguments.
DataRows == Len(args.df.data)

DataCols == Len(args.df.columns)

HeaderLevels == IF args.include_column_header THEN args.df.columns_nlevels ELSE 0

IndexCols == IF args.include_index THEN args.df.index_nlevels ELSE 0

IndexNamed == \A l \in 1..Len(args.df.index_names) : args.df.index_names[l].kind = "str"

ValidEscaping == args.string_escaping.mode \in {"default", "off", "full", "callable"}

Escaping == pc = "done" /\ op = "_escaped_string"

Representing == pc = "done" /\ op = "_cellrepr"

FormulaRule == (~args.allow_formulas) /\ startswith(args.value.s, "=")

\* The update list as a set, and what the codec makes of a value under the
\* call's arguments.
UpdateSet == { updates[k] : k \in 1..Len(updates) }

Written(value) == CellRepr(value, args.allow_formulas, args.string_escaping)

\* The shape the table takes on the sheet, header rows and index columns
\* included (y, x of lines 296-304).
Shape == <<DataRows + HeaderLevels, DataCols + IndexCols>>

\* The call was given rows only, or cols only.
OnlyRows == args.rows # None /\ args.cols = None

OnlyCols == args.rows = None /\ args.cols # None

GridRead == pc = "done" /\ op = "_get_all_values"

FrameRead == pc = "done" /\ op = "get_as_dataframe" /\ result = "ok"

\* Column j of the table returned holds null in every row.
AllNull(j) == \A i \in 1..Len(returned.data) : returned.data[i][j] = Null

(***************************************************************************)
(* The claims.                                                             *)
(***************************************************************************)

\* C1: on a (100, 26) sheet and a remote limit M with 1000000*2 <= M <
\* 1000000*26, _resize_to_minimum(sheet, 1000000, 2) issues two resize calls,
\* cols=2 first and rows=1000000 second, neither is rejected, and the sheet
\* ends at exactly (1000000, 2).
C1_ColsThenRows ==
    (/\ Resizing
     /\ before = <<100, 26>>
     /\ args.rows = 1000000 /\ args.cols = 2
     /\ 1000000 * 2 <= limit /\ limit < 1000000 * 26)
    => /\ Len(calls) = 2
       /\ calls[1].op = "resize" /\ calls[1].rows = None /\ calls[1].cols = 2
       /\ calls[2].op = "resize" /\ calls[2].rows = 1000000 /\ calls[2].cols = None
       /\ calls[1].ok /\ calls[2].ok
       /\ result = "ok"
       /\ <<row_count, col_count>> = <<1000000, 2>>

C1_Witness ==
    /\ Resizing
    /\ before = <<100, 26>>
    /\ args.rows = 1000000 /\ args.cols = 2
    /\ limit = WORKSHEET_MAX_CELL_COUNT
    /\ <<row_count, col_count>> = <<1000000, 2>>

\* C2: when the sheet starts within the limit and the dimensions the resizer
\* aims at are within the limit, every state the sheet passes through while
\* the calls are applied (rows before columns within a call) is within the
\* limit and no call is rejected; from (1000000, 2) a request of (10000, 26)
\* ends at exactly (10000, 26).
C2_NoOverflowOnTheWay ==
    /\ (Resizing /\ Cells(before) <= limit /\ Cells(Target) <= limit)
       => /\ \A i \in 1..Len(calls) :
                /\ calls[i].ok
                /\ Cells(calls[i].mid) <= limit
                /\ Cells(calls[i].fin) <= limit
          /\ result = "ok"
    /\ (Resizing /\ before = <<1000000, 2>> /\ args.rows = 10000 /\ args.cols = 26)
       => <<row_count, col_count>> = <<10000, 26>>

C2_Witness ==
    /\ Resizing
    /\ Cells(Target) <= limit
    /\ plan.resize_cols_first
    /\ Len(calls) = 2
    /\ Cells(AfterRows(before, plan.desired_rows)) > limit
    /\ <<row_count, col_count>> = Target

C4_NoCallWithinCurrent ==
    (/\ Resizing
     /\ args.rows # None /\ args.rows <= before[1]
     /\ args.cols # None /\ args.cols <= before[2])
    => calls = << >>

\* C5: set_with_dataframe with a string_escaping that is none of 'default',
\* 'off', 'full' or a callable raises the configuration error before any
\* remote call: no resize call and no cell-update call precedes it.
C5_ErrorBeforeRemoteCalls ==
    (Writing /\ ~ValidEscaping /\ result = "ValueError") => calls = << >>

\* C6: every cell update of a set_with_dataframe call lies within the sheet's
\* dimensions as they are after the call's resize step.
C6_UpdatesWithinSheet ==
    Writing =>
        \A k \in 1..Len(updates) :
            updates[k][1] <= row_count /\ updates[k][2] <= col_count

\* C7: set_with_dataframe on a table of no rows and no columns, with
\* include_index=False and include_column_header=False, builds an empty
\* update list, returns normally and makes no remote call, neither a
\* cell-update call nor a resize call, whether resize is True or False.
C7_EmptyWriteIsLocal ==
    (/\ Writing
     /\ DataRows = 0 /\ DataCols = 0
     /\ ~args.include_index /\ ~args.include_column_header)
    => (updates = << >> /\ result = "ok" /\ calls = << >>)

\* C8: when the remote rejects a resize call, the error reaches the caller,
\* the rejected call is issued once only, and it is the last remote call of
\* the operation: no second resize and no cell update follow it.
C8_RejectionEndsTheCall ==
    (pc = "done" /\ Rejected(calls))
    => /\ result = "APIError"
       /\ ~calls[Len(calls)].ok
       /\ \A i \in 1..(Len(calls) - 1) : calls[i].ok
       /\ UpdateCalls = << >>
       /\ updates = << >>

C8_Witness ==
    /\ pc = "done"
    /\ result = "APIError"
    /\ Len(calls) = 1
    /\ <<row_count, col_count>> = before

\* C9: with include_index, include_column_header, a header of L > 1 levels
\* and named index levels, the header takes L + 1 rows and the first data row
\* is at anchor_row + L + 1; in every other combination the header takes
\* exactly the header's level count of rows (0 without a header).
C9_HeaderRowCount ==
    (Writing /\ result = "ok" /\ IndexCols + DataCols > 0)
    => LET extra == /\ args.include_index
                    /\ args.include_column_header
                    /\ args.df.columns_nlevels > 1
                    /\ IndexNamed
           header_rows == IF extra THEN HeaderLevels + 1 ELSE HeaderLevels
       IN UpdatedRows = args.row..(args.row + header_rows + DataRows - 1)

\* C10: the update list of set_with_dataframe holds exactly one update for
\* each position of the rectangle [row, row+H+R-1] x [col, col+I+C-1]
\* (H header levels written, R data rows, I index columns written, C data
\* columns) and none outside it.
C10_OneUpdatePerPosition ==
    (Writing /\ result = "ok")
    => LET rectangle ==
               (args.row..(args.row + HeaderLevels + DataRows - 1))
               \X (args.col..(args.col + IndexCols + DataCols - 1))
       IN /\ UpdatedCells = rectangle
          /\ Len(updates) = Cardinality(rectangle)

C10_Witness ==
    /\ Writing
    /\ result = "ok"
    /\ args.include_index /\ args.include_column_header
    /\ args.df.index_nlevels > 1 /\ args.df.columns_nlevels > 1
    /\ DataRows > 1 /\ DataCols > 1
    /\ args.row > 1 /\ args.col > 1
    /\ Len(updates) = (HeaderLevels + DataRows) * (IndexCols + DataCols)

\* C12: with allow_formulas = False, _cellrepr of a string that begins with
\* "=" returns normally, exactly one apostrophe followed by the string,
\* whatever string_escaping is (a valid policy, a predicate, or an invalid
\* value), and the predicate is not called.
C12_FormulaRuleFirst ==
    (Representing /\ args.value.kind = "str" /\ FormulaRule)
        => /\ result = "ok"
           /\ returned = Str(<<"'">> \o args.value.s)
           /\ calls = << >>

C12_Witness ==
    /\ Representing
    /\ args.value = Str(<<"=", "a">>)
    /\ ~args.allow_formulas
    /\ args.string_escaping = Policy("full")
    /\ returned = Str(<<"'", "=", "a">>)

\* C13 as stated: with string_escaping = 'off', _cellrepr returns every string
\* value unchanged, for both settings of allow_formulas.
C13_OffNeverPrefixes ==
    (Representing /\ args.value.kind = "str" /\ args.string_escaping.mode = "off")
        => returned = args.value

\* C13 amended: with string_escaping = 'off', _cellrepr returns a string value
\* unchanged when allow_formulas is True or the value does not begin with "=",
\* and one apostrophe followed by the value when allow_formulas is False and
\* the value begins with "=".
C13_OffLeavesTheFormulaRule ==
    (Representing /\ args.value.kind = "str" /\ args.string_escaping.mode = "off")
        => returned = IF FormulaRule THEN Str(<<"'">> \o args.value.s)
                      ELSE args.value

C13_Witness ==
    /\ Representing
    /\ args.string_escaping.mode = "off"
    /\ args.value = Str(<<"=", "'">>)
    /\ ~args.allow_formulas
    /\ returned = Str(<<"'", "=", "'">>)

\* C14: for a string the formula rule does not escape, under a valid policy,
\* the result of _escaped_string is an apostrophe followed by the string when
\* the string is non-empty and the policy is 'full', or 'default' and the
\* string starts with an apostrophe, or a predicate that is true of it, and
\* the string unchanged otherwise; the empty string and the null value give
\* the empty string under every policy, with no call of the predicate.
C14_EscapedStringReference ==
    /\ ((Escaping \/ (Representing /\ args.value.kind # "num" /\ ~FormulaRule))
            /\ args.value.kind = "str" /\ args.value.s # << >> /\ ValidEscaping)
        => LET v == args.value.s
               mode == args.string_escaping.mode
               escapes == \/ mode = "full"
                          \/ mode = "default" /\ v[1] = "'"
                          \/ mode = "callable" /\ v \in args.string_escaping.accepts
           IN /\ result = "ok"
              /\ returned.kind = "str"
              /\ returned.s = IF escapes THEN <<"'">> \o v ELSE v
    /\ ((Escaping \/ Representing) /\ (args.value = Null \/ args.value = Str(<< >>)))
        => /\ result = "ok"
           /\ returned = Str(<< >>)
           /\ calls = << >>

C14_Witness ==
    /\ Escaping
    /\ args.value = Str(<< >>)
    /\ args.string_escaping = Callable({<< >>})
    /\ returned = Str(<< >>)
    /\ calls = << >>

\* C15: with resize = True, set_with_dataframe issues exactly one resize
\* call; its rows are the table's rows plus the header levels (when the
\* header is written) and its cols are the table's columns plus the index
\* levels (when the index is written, and only then).
C15_ResizeToShape ==
    (Writing /\ args.resize)
        => /\ Len(ResizeCalls) = 1
           /\ ResizeCalls[1].rows = DataRows + HeaderLevels
           /\ ResizeCalls[1].cols = DataCols + IndexCols

C15_Witness ==
    /\ Writing
    /\ args.resize
    /\ result = "ok"
    /\ args.include_column_header
    /\ args.df.columns_nlevels > 1
    /\ ~args.include_index
    /\ args.df.index_nlevels > 1
    /\ DataRows > 1
    /\ DataCols > 1
    /\ ResizeCalls[1].rows = DataRows + args.df.columns_nlevels
    /\ ResizeCalls[1].cols = DataCols

\* C16: a call of set_with_dataframe makes at most one update_cells call;
\* when it has built a non-empty update list it makes exactly one, after
\* every resize call, and the list is in row-major order: each update is
\* in a later row than the one before it, or in the same row and a later
\* column.  With an empty list there is no update_cells call.
C16_OneRowMajorUpdate ==
    Writing
        => /\ Len(UpdateCalls) <= 1
           /\ (updates = << >>) => (UpdateCalls = << >>)
           /\ (updates # << >>)
                => /\ Len(UpdateCalls) = 1
                   /\ calls[Len(calls)].op = "update_cells"
                   /\ \A k \in 1..(Len(updates) - 1) :
                         \/ updates[k][1] < updates[k + 1][1]
                         \/ /\ updates[k][1] = updates[k + 1][1]
                            /\ updates[k][2] < updates[k + 1][2]

C16_Witness ==
    /\ Writing
    /\ result = "ok"
    /\ HeaderLevels > 1
    /\ IndexCols > 0
    /\ DataRows > 1
    /\ DataCols > 1
    /\ Len(ResizeCalls) = 1
    /\ Len(calls) = 2
    /\ calls[2].op = "update_cells"
    /\ Len(updates) = (HeaderLevels + DataRows) * (IndexCols + DataCols)

\* C17: _get_all_values returns exactly row_count rows of exactly col_count
\* cells each; a cell the remote returned keeps its value at its position
\* and every other position holds the empty string.
C17_FullRectangle ==
    GridRead
        => /\ Len(returned.rows) = row_count
           /\ \A i \in 1..row_count :
                 /\ Len(returned.rows[i]) = col_count
                 /\ \A j \in 1..col_count :
                       returned.rows[i][j] =
                           IF i <= Len(args.values) /\ j <= Len(args.values[i])
                           THEN args.values[i][j]
                           ELSE Str(<< >>)

C17_Witness ==
    /\ GridRead
    /\ row_count > 1
    /\ col_count > 1
    /\ args.values = << << >>, << Str(<<"x">>) >> >>
    /\ returned.rows[2][1] = Str(<<"x">>)
    /\ returned.rows[1][col_count] = Str(<< >>)

\* C18: the table get_as_dataframe returns under default options has no
\* column with a placeholder name whose every value is null.
C18_UnnamedEmptyColumnsDropped ==
    (FrameRead /\ Len(returned.data) > 0)
        => \A j \in 1..Len(returned.columns) :
               ~(returned.columns[j].kind = "unnamed" /\ AllNull(j))

\* C19 as stated: after _resize_to_minimum with one dimension given, that
\* dimension is the larger of its value before and the requested value, and
\* the other dimension is as before.
C19_OneDimension ==
    /\ (Resizing /\ OnlyRows)
           => row_count = Max(before[1], args.rows) /\ col_count = before[2]
    /\ (Resizing /\ OnlyCols)
           => col_count = Max(before[2], args.cols) /\ row_count = before[1]

\* C19 amended: the same, provided the remote does not reject the resize
\* call; when it rejects it, both dimensions are as before.
C19_OneDimensionUnlessRejected ==
    /\ (Resizing /\ OnlyRows /\ ~Rejected(calls))
           => row_count = Max(before[1], args.rows) /\ col_count = before[2]
    /\ (Resizing /\ OnlyCols /\ ~Rejected(calls))
           => col_count = Max(before[2], args.cols) /\ row_count = before[1]
    /\ (Resizing /\ (OnlyRows \/ OnlyCols) /\ Rejected(calls))
           => <<row_count, col_count>> = before

C19_Witness ==
    /\ Resizing
    /\ OnlyRows
    /\ args.rows < before[1]
    /\ result = "ok"
    /\ <<row_count, col_count>> = before

\* C20: after a call of _resize_to_minimum in which no resize call was
\* rejected, row_count is at least the rows requested and col_count at least
\* the cols requested, whichever of them were given.
C20_MinimumReached ==
    (Resizing /\ ~Rejected(calls))
        => /\ args.rows # None => row_count >= args.rows
           /\ args.cols # None => col_count >= args.cols

C20_Witness ==
    /\ Resizing
    /\ ~Rejected(calls)
    /\ plan.exact
    /\ args.rows > before[1]
    /\ args.cols < before[2]
    /\ row_count = args.rows
    /\ col_count = args.cols

\* C21: _resize_to_minimum, given at least one dimension, issues two resize
\* calls, the column count alone first and the row count alone second,
\* exactly when both dimensions are given, the requested cols is below the
\* current column count and the desired rows (the requested rows when the
\* clamped size exceeds the maximum cell count, the larger of requested and
\* current rows otherwise) times the current column count exceeds the maximum
\* cell count; in every other case it issues one resize call, which carries
\* exactly the dimensions that were given.
C21_TwoCallsExactlyWhen ==
    (Resizing /\ (args.rows # None \/ args.cols # None))
        => LET both == args.rows # None /\ args.cols # None
               exact == both /\ Max(args.rows, before[1]) * Max(args.cols, before[2])
                                    > WORKSHEET_MAX_CELL_COUNT
               wanted_rows == IF exact THEN args.rows ELSE Max(args.rows, before[1])
               cols_first == /\ both
                             /\ args.cols < before[2]
                             /\ wanted_rows * before[2] > WORKSHEET_MAX_CELL_COUNT
           IN IF cols_first
              THEN /\ Len(calls) = 2
                   /\ calls[1].op = "resize" /\ calls[2].op = "resize"
                   /\ calls[1].rows = None /\ calls[1].cols # None
                   /\ calls[2].rows # None /\ calls[2].cols = None
              ELSE /\ Len(calls) = 1
                   /\ calls[1].op = "resize"
                   /\ (calls[1].rows # None) <=> (args.rows # None)
                   /\ (calls[1].cols # None) <=> (args.cols # None)

C21_Witness ==
    /\ Resizing
    /\ before = <<200, 28>>
    /\ args.rows = 1000000 /\ args.cols = 5
    /\ Len(calls) = 2
    /\ calls[1].cols = 5 /\ calls[1].rows = None
    /\ calls[2].rows = 1000000 /\ calls[2].cols = None

C23_RejectionChangesNothing ==
    (Resizing /\ Rejected(calls)) => <<row_count, col_count>> = before

\* C23 amended: when the one resize call of _resize_to_minimum is rejected,
\* the dimensions are those before; when the rejected call is the second
\* (row count) call of the cols-first pair, the row count is as before and
\* the column count is the requested one, to which the first call has
\* already reduced it.
C23_RejectionKeepsEarlierCalls ==
    (Resizing /\ Rejected(calls))
        => IF Len(calls) = 1
           THEN <<row_count, col_count>> = before
           ELSE /\ Len(calls) = 2
                /\ calls[1].ok /\ ~calls[2].ok
                /\ calls[1].rows = None /\ calls[1].cols = args.cols
                /\ row_count = before[1]
                /\ col_count = args.cols
                /\ col_count < before[2]

C23_Witness ==
    /\ Resizing
    /\ limit = WORKSHEET_MAX_CELL_COUNT
    /\ before = <<200, 27>>
    /\ args.rows = 1000000 /\ args.cols = 26
    /\ result = "APIError"
    /\ Len(calls) = 2
    /\ <<row_count, col_count>> = <<200, 26>>

\* C24: when the shape of the table (header rows and index columns included)
\* has cells and is within the remote's maximum cell count, no resize call of
\* set_with_dataframe is rejected, with resize = True on any such remote and
\* with resize = False on the remote whose maximum is the one the resizer is
\* written for.
C24_ResizeStepNotRejected ==
    (/\ Writing
     /\ Cells(Shape) > 0
     /\ Cells(Shape) <= limit
     /\ (args.resize \/ limit = WORKSHEET_MAX_CELL_COUNT))
        => ~Rejected(calls)

\* C25: with include_index, a multi-level index and handle_MultiIndex =
\* 'blank', an index cell is written with its own value when it is at the
\* deepest level, or in the first row, or differs from the value of the same
\* level in the previous row; only a higher-level cell that repeats the
\* previous row's value may be blank.
C25_BlankOnlyRepeatedHigherLevels ==
    (Writing /\ result = "ok" /\ args.include_index
             /\ args.df.index_nlevels > 1 /\ args.handle_MultiIndex = "blank")
        => \A i \in 1..DataRows : \A l \in 1..args.df.index_nlevels :
              (\/ l = args.df.index_nlevels
               \/ i = 1
               \/ args.df.index[i][l] # args.df.index[i - 1][l])
                  => <<args.row + HeaderLevels + (i - 1), args.col + (l - 1),
                       Written(args.df.index[i][l])>> \in UpdateSet

====
